---- MODULE Spec2Model ----
(***************************************************************************)
(* Model of the Alpha Vantage MCP server: the API client (src/src/client.py)*)
(* with its retrying session, and the four tools of src/src/server.py.      *)
(*                                                                         *)
(* Text that the code transforms (symbols, the comma-separated symbol list,*)
(* date keys) is a sequence of one-character strings, so that upper(),     *)
(* strip(), split(',') and sorted() are computed, not assumed.  Messages   *)
(* are sequences of parts: a literal, a piece of caller text, the API key  *)
(* or a piece of provider payload.                                         *)
(***************************************************************************)
EXTENDS Integers, Sequences, FiniteSets, TLC

\* ------------------------------------------------------------------ bounds
\* transient failures (retryable status, network failure) the network
\* produces during one tool invocation
MaxFaults == 1
\* largest limit argument tried for analyze_top_performers (smallest is -1)
MaxLimit == 2
\* number of distinct date keys a provider time series is drawn from
MaxDates == 6

\* ------------------------------------------------------- program constants
\* config.py: max_retries = Field(default=3, ge=0, le=5)
MaxRetriesGe == 0
MaxRetriesLe == 5
\* server.py: if len(symbol_list) > 50
MaxSymbols == 50
\* client.py: sorted(parsed_series.keys(), reverse=True)[:5]
RecentWindow == 5
\* client.py: for match in matches[:10]
MaxMatches == 10

\* client.py _create_session: status_forcelist=[429, 500, 502, 503, 504]
status_forcelist == {"429", "500", "502", "503", "504"}
\* client.py _create_session: allowed_methods=["GET"]
allowed_methods == {"GET"}

\* ---------------------------------------------------------------- text
Min(a, b) == IF a < b THEN a ELSE b
Max(a, b) == IF a > b THEN a ELSE b
Range(s) == {s[i] : i \in DOMAIN s}

\* str.upper() on the alphabet of the model
UpperChar(c) ==
    CASE c = "a" -> "A"
      [] c = "b" -> "B"
      [] OTHER -> c
upper(s) == [i \in DOMAIN s |-> UpperChar(s[i])]

IsSpace(c) == c = " "

\* str.strip(): leading and trailing whitespace removed
RECURSIVE lstrip(_)
lstrip(s) == IF s # <<>> /\ IsSpace(Head(s)) THEN lstrip(Tail(s)) ELSE s
RECURSIVE rstrip(_)
rstrip(s) ==
    IF s # <<>> /\ IsSpace(s[Len(s)]) THEN rstrip(SubSeq(s, 1, Len(s) - 1)) ELSE s
strip(s) == rstrip(lstrip(s))

\* str.split(','): the pieces between commas, empty pieces kept
RECURSIVE SplitRange(_, _, _)
SplitRange(s, lo, hi) ==
    LET commas == {j \in lo..hi : s[j] = ","}
    IN  IF commas = {} THEN <<SubSeq(s, lo, hi)>>
        ELSE LET m == CHOOSE j \in commas :
                          Cardinality({k \in commas : k < j}) = Cardinality(commas) \div 2
             IN  SplitRange(s, lo, m - 1) \o SplitRange(s, m + 1, hi)
split(s) == SplitRange(s, 1, Len(s))

\* n copies of s, concatenated
Rep(s, n) == [i \in 1..(n * Len(s)) |-> s[((i - 1) % Len(s)) + 1]]

\* a slice that keeps one entry more
SliceToInclusive(s, n) == SubSeq(s, 1, IF n < 0 THEN Max(Len(s) + n + 1, 0) ELSE Min(n + 1, Len(s)))
\* Python slicing seq[:n], n any integer
SliceTo(s, n) ==
    LET stop == IF n < 0 THEN Max(Len(s) + n, 0) ELSE Min(n, Len(s))
    IN  SubSeq(s, 1, stop)

\* ------------------------------------------------------------- messages
Lit(t) == [t |-> t, s |-> <<>>]
Text(s) == [t |-> "$text", s |-> s]
KeyPart == [t |-> "$apikey", s |-> <<>>]
Payload(k) == [t |-> "$payload", s |-> <<k>>]

\* client.py _make_request: params["apikey"] = self.settings.alpha_vantage_api_key;
\* the query string requests builds from params, as it appears in the URL
UrlOf(params) ==
    <<Lit("https://www.alphavantage.co/query?function="), Lit(params.function)>>
    \o (IF params.symbol # <<>> THEN <<Lit("&symbol="), Text(params.symbol)>> ELSE <<>>)
    \o (IF params.keywords # <<>> THEN <<Lit("&keywords="), Text(params.keywords)>> ELSE <<>>)
    \o (IF params.outputsize # "" THEN <<Lit("&outputsize="), Lit(params.outputsize)>> ELSE <<>>)
    \o <<Lit("&apikey="), KeyPart>>

\* --------------------------------------------------------- exceptions
\* class AlphaVantageError(Exception); class RateLimitError(AlphaVantageError);
\* pydantic's ValidationError and json's JSONDecodeError are ValueErrors
IsInstance(exc, cls) ==
    \/ exc = cls
    \/ cls = "Exception" /\ exc # ""
    \/ cls = "AlphaVantageError" /\ exc = "RateLimitError"
    \/ cls = "ValueError" /\ exc = "ValidationError"


\* ------------------------------------------------------ provider payloads
\* A JSON body is the set of its top-level keys and the value under the
\* operation's data key.  An object is a function from its keys.
EmptyObj == [k \in {} |-> ""]
Body(keys, value) == [keys |-> keys, value |-> value]

\* dict.get(key, default) on a JSON object
Get(obj, key, default) == IF key \in DOMAIN obj THEN obj[key] ELSE default
\* data.get(key, {}) / data.get(key, []) on the response body
BodyGet(body, key, default) == IF key \in body.keys THEN body.value ELSE default

DigitChar(n) ==
    CASE n = 0 -> "0" [] n = 1 -> "1" [] n = 2 -> "2" [] n = 3 -> "3" [] n = 4 -> "4"
      [] n = 5 -> "5" [] n = 6 -> "6" [] n = 7 -> "7" [] n = 8 -> "8" [] OTHER -> "9"
Digits2(n) == <<DigitChar((n \div 10) % 10), DigitChar(n % 10)>>

\* code point order of the characters that occur in keys
Ord(c) ==
    CASE c = " " -> 32 [] c = "," -> 44 [] c = "-" -> 45
      [] c = "0" -> 48 [] c = "1" -> 49 [] c = "2" -> 50 [] c = "3" -> 51
      [] c = "4" -> 52 [] c = "5" -> 53 [] c = "6" -> 54 [] c = "7" -> 55
      [] c = "8" -> 56 [] c = "9" -> 57 [] c = "A" -> 65 [] c = "B" -> 66
      [] c = "a" -> 97 [] c = "b" -> 98 [] OTHER -> 127

\* Python's str < str: lexicographic by code point, a proper prefix is smaller
RECURSIVE StrLess(_, _)
StrLess(x, y) ==
    IF y = <<>> THEN FALSE
    ELSE IF x = <<>> THEN TRUE
    ELSE IF Ord(Head(x)) # Ord(Head(y)) THEN Ord(Head(x)) < Ord(Head(y))
    ELSE StrLess(Tail(x), Tail(y))

\* --- GLOBAL_QUOTE payloads
QuoteObj(price, change, pct, volume, prev) ==
    [k \in {"02. open", "03. high", "04. low", "05. price", "06. volume",
            "07. latest trading day", "08. previous close", "09. change",
            "10. change percent"} |->
        CASE k = "05. price" -> price
          [] k = "09. change" -> change
          [] k = "10. change percent" -> pct
          [] k = "06. volume" -> volume
          [] k = "08. previous close" -> prev
          [] k = "07. latest trading day" -> "2024-01-15"
          [] OTHER -> "10.0"]
Without(obj, key) == [k \in DOMAIN obj \ {key} |-> obj[k]]

QuoteHigh == QuoteObj("10.5", "2", "1.30%", "100", "4")
QuoteTieP == QuoteObj("10.5", "1", "9.99%", "50", "2")
QuoteLow  == QuoteObj("10.5", "-1", "-0.5%", "100", "4")
QuoteThin == Without(QuoteHigh, "06. volume")
QuoteNoBase == QuoteObj("10.5", "1", "9.99%", "50", "-1")

\* the bodies an HTTP 200 may carry for GLOBAL_QUOTE
QuoteBodies ==
    { Body({"Global Quote"}, q) : q \in {QuoteHigh, QuoteTieP, QuoteLow, QuoteThin} }
    \cup { Body({"Global Quote"}, EmptyObj), Body({}, EmptyObj) }
    \cup { Body(ks, EmptyObj) : ks \in {{"Error Message"}, {"Note"}, {"Note", "Error Message"}} }
    \cup { Body(ks \cup {"Global Quote"}, QuoteHigh) :
             ks \in {{"Error Message"}, {"Note"}, {"Note", "Error Message"}} }

\* --- TIME_SERIES_DAILY payloads
BarKeys == {"1. open", "2. high", "3. low", "4. close", "5. volume"}
DateKey(i) == <<"2", "4", "-">> \o Digits2(i + 7)
\* the bar of one date; every value names its date, so bars are told apart
BarOf(d) == [k \in BarKeys |-> <<k, d>>]
\* a time series over the dates `ds`, the bar of date `thin` lacking a field
SeriesObj(ds, thin) ==
    [d \in {DateKey(i) : i \in ds} |->
        IF thin \in ds /\ d = DateKey(thin) THEN Without(BarOf(d), "5. volume") ELSE BarOf(d)]

DailyBodies ==
    { Body({"Time Series (Daily)", "Meta Data"}, SeriesObj(ds, thin)) :
         ds \in SUBSET (1..MaxDates), thin \in {0, 1} }
    \cup { Body(ks, EmptyObj) :
             ks \in {{}, {"Error Message"}, {"Note"}, {"Note", "Error Message"}} }
    \cup { Body({"Note", "Time Series (Daily)"}, SeriesObj({1}, 0)) }

\* --- SYMBOL_SEARCH payloads
MatchKeys == {"1. symbol", "2. name", "3. type", "4. region", "8. currency"}
MatchOf(i) == [k \in MatchKeys |-> <<k, Digits2(i)>>]
MatchList(n, thin) ==
    [i \in 1..n |-> IF i = thin THEN Without(MatchOf(i), "8. currency") ELSE MatchOf(i)]

SearchBodies ==
    { Body({"bestMatches"}, MatchList(n, thin)) :
         n \in {0, 1, 2, MaxMatches, MaxMatches + 1}, thin \in {0, 1} }
    \cup { Body(ks, <<>>) :
             ks \in {{}, {"Error Message"}, {"Note"}, {"Note", "Error Message"}} }
    \cup { Body({"Note", "bestMatches"}, MatchList(1, 0)) }

\* ------------------------------------------------------------ the client
\* What one session.get() call ends in, after the adapter's retries:
\*   kind "ok"            a 2xx response whose body parsed as JSON
\*   kind "badjson"       a 2xx response whose body is not JSON
\*   kind "http_error"    a final non-2xx status outside status_forcelist
\*   kind "retry_error"   retries exhausted on a status of status_forcelist
\*   kind "connect_error" retries exhausted on a connection failure
\*   kind "timeout"       retries exhausted on a connect timeout
Net(kind, body) == [kind |-> kind, body |-> body]
NoBody == Body({}, EmptyObj)
NoValue == [none |-> TRUE]

Ok(value) == [exc |-> "", msg |-> <<>>, value |-> value]
Fail(cls, msg) == [exc |-> cls, msg |-> msg, value |-> NoValue]

\* the classification without its "Note" check
ClassifyIgnoringNote(body) ==
    IF "Error Message" \in body.keys
    THEN Fail("AlphaVantageError", <<Lit("API Error: "), Payload("Error Message")>>)
    ELSE Ok(body)
\* client.py _make_request: the "Error Message" check, then the "Note" check
Classify(body) ==
    IF "Error Message" \in body.keys
    THEN Fail("AlphaVantageError", <<Lit("API Error: "), Payload("Error Message")>>)
    ELSE IF "Note" \in body.keys
    THEN Fail("RateLimitError", <<Lit("Rate limit reached: "), Payload("Note")>>)
    ELSE Ok(body)

\* client.py _make_request.  str(e) of a requests exception names the URL of
\* the request, query string included.  response.json() raises a
\* RequestException subclass in requests >= 2.27 and a plain ValueError
\* before; jsonIsRequestError says which build runs.
make_request(params, net, jsonIsRequestError) ==
    CASE net.kind = "ok" -> Classify(net.body)
      [] net.kind = "timeout" ->
           Fail("AlphaVantageError", <<Lit("Request timed out")>>)
      [] net.kind = "http_error" ->
           Fail("AlphaVantageError",
                <<Lit("Request failed: "), Lit("Client Error for url: ")>> \o UrlOf(params))
      [] net.kind \in {"retry_error", "connect_error"} ->
           Fail("AlphaVantageError",
                <<Lit("Request failed: "), Lit("Max retries exceeded with url: ")>>
                \o UrlOf(params))
      [] OTHER ->
           IF jsonIsRequestError
           THEN Fail("AlphaVantageError", <<Lit("Request failed: "), Lit("Expecting value")>>)
           ELSE Fail("ValueError", <<Lit("Expecting value")>>)

QuoteParams(symbol) ==
    [function |-> "GLOBAL_QUOTE", symbol |-> upper(symbol), keywords |-> <<>>,
     outputsize |-> ""]
DailyParams(symbol, outputsize) ==
    [function |-> "TIME_SERIES_DAILY", symbol |-> upper(symbol), keywords |-> <<>>,
     outputsize |-> outputsize]
SearchParams(keywords) ==
    [function |-> "SYMBOL_SEARCH", symbol |-> <<>>, keywords |-> keywords,
     outputsize |-> ""]

\* models.py StockQuote, as client.py get_quote fills it
StockQuote(symbol, q) ==
    [symbol |-> upper(symbol),
     price |-> Get(q, "05. price", "N/A"),
     change |-> Get(q, "09. change", "N/A"),
     change_percent |-> Get(q, "10. change percent", "N/A"),
     volume |-> Get(q, "06. volume", "N/A"),
     latest_trading_day |-> Get(q, "07. latest trading day", "N/A"),
     previous_close |-> Get(q, "08. previous close", "N/A"),
     open |-> Get(q, "02. open", "N/A"),
     high |-> Get(q, "03. high", "N/A"),
     low |-> Get(q, "04. low", "N/A"),
     retrieved_at |-> "now"]

\* get_quote without its check for an empty quote object
get_quote_unchecked(symbol, net, jsonIsRequestError) ==
    LET r == make_request(QuoteParams(symbol), net, jsonIsRequestError)
    IN  IF r.exc # "" THEN r
        ELSE Ok(StockQuote(symbol, BodyGet(r.value, "Global Quote", EmptyObj)))
\* client.py get_quote
get_quote(symbol, net, jsonIsRequestError) ==
    LET r == make_request(QuoteParams(symbol), net, jsonIsRequestError)
        quote_data == BodyGet(r.value, "Global Quote", EmptyObj)
    IN  IF r.exc # "" THEN r
        ELSE IF DOMAIN quote_data = {}
        THEN Fail("AlphaVantageError", <<Lit("No data found for symbol "), Text(symbol)>>)
        ELSE Ok(StockQuote(symbol, quote_data))

\* sorted(keys, reverse=True): the keys in descending string order
RECURSIVE SortedDesc(_)
SortedDesc(S) ==
    IF S = {} THEN <<>>
    ELSE LET m == CHOOSE x \in S : \A y \in S \ {x} : StrLess(y, x)
         IN  <<m>> \o SortedDesc(S \ {m})

\* client.py get_daily_prices: sorted(parsed_series.keys(), reverse=True)[:5]
RecentDates(keys) == SliceTo(SortedDesc(keys), RecentWindow)

\* models.py DailyPrice(**values): all five aliases are required fields
DailyPriceValid(values) == BarKeys \subseteq DOMAIN values
DailyPrice(values) ==
    [open |-> values["1. open"], high |-> values["2. high"], low |-> values["3. low"],
     close |-> values["4. close"], volume |-> values["5. volume"]]

\* client.py get_daily_prices; recent_days keeps its insertion order
get_daily_prices(symbol, outputsize, net, jsonIsRequestError) ==
    LET r == make_request(DailyParams(symbol, outputsize), net, jsonIsRequestError)
        time_series == BodyGet(r.value, "Time Series (Daily)", EmptyObj)
        recent_dates == RecentDates(DOMAIN time_series)
    IN  IF r.exc # "" THEN r
        ELSE IF DOMAIN time_series = {}
        THEN Fail("AlphaVantageError", <<Lit("No daily data found for "), Text(symbol)>>)
        ELSE IF \E d \in DOMAIN time_series : ~DailyPriceValid(time_series[d])
        THEN Fail("ValidationError", <<Lit("validation error for DailyPrice: Field required")>>)
        ELSE Ok([symbol |-> upper(symbol),
                 recent_days |-> [i \in DOMAIN recent_dates |->
                     [date |-> recent_dates[i],
                      price |-> DailyPrice(time_series[recent_dates[i]])]],
                 total_days_available |-> Cardinality(DOMAIN time_series)])

\* models.py SymbolMatch, as client.py search_symbols fills it
SymbolMatch(match) ==
    [symbol |-> Get(match, "1. symbol", <<>>),
     name |-> Get(match, "2. name", <<>>),
     type |-> Get(match, "3. type", <<>>),
     region |-> Get(match, "4. region", <<>>),
     currency |-> Get(match, "8. currency", <<>>)]

\* search_symbols keeping one match more than matches[:10]
search_symbols_one_more(keywords, net, jsonIsRequestError) ==
    LET r == make_request(SearchParams(keywords), net, jsonIsRequestError)
        matches == BodyGet(r.value, "bestMatches", <<>>)
        kept == SliceTo(matches, MaxMatches + 1)
    IN  IF r.exc # "" THEN r
        ELSE IF Len(matches) = 0
        THEN Fail("AlphaVantageError",
                  <<Lit("No symbols found for '"), Text(keywords), Lit("'")>>)
        ELSE Ok([i \in DOMAIN kept |-> SymbolMatch(kept[i])])
\* client.py search_symbols
search_symbols(keywords, net, jsonIsRequestError) ==
    LET r == make_request(SearchParams(keywords), net, jsonIsRequestError)
        matches == BodyGet(r.value, "bestMatches", <<>>)
        kept == SliceTo(matches, MaxMatches)
    IN  IF r.exc # "" THEN r
        ELSE IF Len(matches) = 0
        THEN Fail("AlphaVantageError",
                  <<Lit("No symbols found for '"), Text(keywords), Lit("'")>>)
        ELSE Ok([i \in DOMAIN kept |-> SymbolMatch(kept[i])])

\* ------------------------------------------------------------ the server
None == [some |-> FALSE, s |-> <<>>]
Some(s) == [some |-> TRUE, s |-> s]
NoResult == [kind |-> "none"]

\* server.py format_error: ErrorResponse(error, symbol, query, timestamp=now(utc))
format_error(error, symbol, query) ==
    [kind |-> "error", error |-> error, symbol |-> symbol, query |-> query,
     timestamp |-> "utc"]

\* logging.basicConfig(level=logging.INFO): a record below INFO is not made
LevelNo(level) ==
    CASE level = "DEBUG" -> 10 [] level = "INFO" -> 20 [] level = "WARNING" -> 30
      [] OTHER -> 40
Record(level, msg) == IF LevelNo(level) >= LevelNo("INFO") THEN {[level |-> level, msg |-> msg]} ELSE {}

\* client.py _make_request: logger.debug(f"Making request with params: {params}")
RequestLog(params) ==
    Record("DEBUG", <<Lit("Making request with params: ")>> \o UrlOf(params))

\* the except clauses of a tool, in order
ExceptClausesNoRateLimit(tool) ==
    IF tool = "analyze_top_performers" THEN <<"Exception">>
    ELSE <<"RateLimitError", "AlphaVantageError", "Exception">>
ExceptClausesNoCatchAll(tool) ==
    IF tool = "analyze_top_performers" THEN <<"RateLimitError">>
    ELSE <<"RateLimitError", "AlphaVantageError">>
ExceptClauses(tool) ==
    IF tool = "analyze_top_performers" THEN <<"RateLimitError", "Exception">>
    ELSE <<"RateLimitError", "AlphaVantageError", "Exception">>

\* the clause that catches exc: the first one whose class exc is an instance of
Caught(tool, exc) ==
    LET cs == ExceptClauses(tool)
        hits == {i \in DOMAIN cs : IsInstance(exc, cs[i])}
    IN  IF hits = {} THEN ""
        ELSE cs[CHOOSE i \in hits : \A j \in hits : i <= j]

\* what the tool says before str(e) in an AlphaVantageError clause
ErrorPrefix(tool) ==
    CASE tool = "get_stock_quote" -> "Error fetching quote: "
      [] tool = "get_daily_prices" -> "Error fetching daily prices: "
      [] OTHER -> "Error searching: "
ErrorLogPrefix(tool) ==
    CASE tool = "get_stock_quote" -> "Error fetching quote for "
      [] tool = "get_daily_prices" -> "Error fetching daily prices for "
      [] OTHER -> "Error searching for "

\* The except clauses of get_stock_quote, get_daily_prices, search_symbol and
\* analyze_top_performers.  subject is the symbol or the keywords as the
\* caller gave them; analyze_top_performers attaches neither.
\* Gives the document returned, the log records made and the class of the
\* exception that escapes ("" when none does).
Handle(tool, r, subject) ==
    LET clause == Caught(tool, r.exc)
        sym == IF tool \in {"get_stock_quote", "get_daily_prices"} THEN Some(subject) ELSE None
        qry == IF tool = "search_symbol" THEN Some(subject) ELSE None
    IN  CASE clause = "RateLimitError" ->
               [doc |-> format_error(<<Lit("Rate limit reached: ")>> \o r.msg, sym, qry),
                log |-> Record("WARNING", <<Lit("Rate limit reached: ")>> \o r.msg),
                escaped |-> ""]
          [] clause = "AlphaVantageError" ->
               [doc |-> format_error(<<Lit(ErrorPrefix(tool))>> \o r.msg, sym, qry),
                log |-> Record("ERROR",
                          <<Lit(ErrorLogPrefix(tool)), Text(subject), Lit(": ")>> \o r.msg),
                escaped |-> ""]
          [] clause = "Exception" ->
               [doc |-> format_error(<<Lit("Unexpected error: ")>> \o r.msg, sym, qry),
                log |-> Record("ERROR",
                          <<Lit("Unexpected error"), Lit("Traceback: ")>> \o r.msg),
                escaped |-> ""]
          [] OTHER ->
               [doc |-> NoResult, log |-> {}, escaped |-> r.exc]

\* float(str) on the strings that occur as quote fields, in tenths
ParseFloat(str) ==
    CASE str = "10.5" -> [ok |-> TRUE, v |-> 105]
      [] str = "10.0" -> [ok |-> TRUE, v |-> 100]
      [] str = "100" -> [ok |-> TRUE, v |-> 1000]
      [] str = "50" -> [ok |-> TRUE, v |-> 500]
      [] str = "4" -> [ok |-> TRUE, v |-> 40]
      [] str = "2" -> [ok |-> TRUE, v |-> 20]
      [] str = "1" -> [ok |-> TRUE, v |-> 10]
      [] str = "0" -> [ok |-> TRUE, v |-> 0]
      [] str = "-1" -> [ok |-> TRUE, v |-> -10]
      [] OTHER -> [ok |-> FALSE, v |-> 0]
\* int(str): digits only, no decimal point
ParseInt(str) ==
    CASE str = "100" -> [ok |-> TRUE, v |-> 100]
      [] str = "50" -> [ok |-> TRUE, v |-> 50]
      [] str = "4" -> [ok |-> TRUE, v |-> 4]
      [] str = "2" -> [ok |-> TRUE, v |-> 2]
      [] str = "1" -> [ok |-> TRUE, v |-> 1]
      [] str = "0" -> [ok |-> TRUE, v |-> 0]
      [] str = "-1" -> [ok |-> TRUE, v |-> -1]
      [] OTHER -> [ok |-> FALSE, v |-> 0]

\* the conversions without the one of the volume
ParsesButVolume(quote) ==
    /\ ParseFloat(quote.price).ok
    /\ ParseFloat(quote.previous_close).ok
    /\ ParseFloat(quote.change).ok
\* server.py analyze_top_performers: the four conversions of one quote
Parses(quote) ==
    /\ ParseFloat(quote.price).ok
    /\ ParseFloat(quote.previous_close).ok
    /\ ParseFloat(quote.change).ok
    /\ ParseInt(quote.volume).ok

\* a ratio n/d, d > 0, and its order
Ratio(n, d) == [n |-> n, d |-> d]
RatioLess(x, y) == x.n * y.d < y.n * x.d
RatioEq(x, y) == x.n * y.d = y.n * x.d

\* the same without the guard on previous_close
ChangePercentUnguarded(change, previous_close) ==
    IF previous_close > 0 THEN Ratio(change * 100, previous_close)
    ELSE IF previous_close < 0 THEN Ratio(0 - change * 100, 0 - previous_close)
    ELSE Ratio(0, 1)
\* (change / previous_close * 100) if previous_close > 0 else 0.0
ChangePercent(change, previous_close) ==
    IF previous_close > 0 THEN Ratio(change * 100, previous_close) ELSE Ratio(0, 1)

\* PerformerMetrics(...), as analyze_top_performers fills it (server.py 229-237)
PerformerMetrics(quote) ==
    [symbol |-> quote.symbol,
     current_price |-> ParseFloat(quote.price).v,
     previous_close |-> ParseFloat(quote.previous_close).v,
     change |-> ParseFloat(quote.change).v,
     change_percent |-> ChangePercent(ParseFloat(quote.change).v,
                                      ParseFloat(quote.previous_close).v),
     volume |-> ParseInt(quote.volume).v,
     period |-> "1day"]

\* key order of the selected metric
KeyLess(metric, x, y) ==
    IF metric = "change_percent" THEN RatioLess(x.change_percent, y.change_percent)
    ELSE x.volume < y.volume

\* list.sort(key=..., reverse=True): descending, equal keys keep their order
RECURSIVE InsertDesc(_, _, _)
InsertDesc(metric, sorted, x) ==
    IF sorted = <<>> THEN <<x>>
    ELSE IF KeyLess(metric, Head(sorted), x) THEN <<x>> \o sorted
    ELSE <<Head(sorted)>> \o InsertDesc(metric, Tail(sorted), x)
RECURSIVE SortFrom(_, _, _)
SortFrom(metric, sorted, rest) ==
    IF rest = <<>> THEN sorted
    ELSE SortFrom(metric, InsertDesc(metric, sorted, Head(rest)), Tail(rest))
\* an ascending sort, and a descending sort that puts equal keys last-first
RECURSIVE InsertAsc(_, _, _)
InsertAsc(metric, sorted, x) ==
    IF sorted = <<>> THEN <<x>>
    ELSE IF KeyLess(metric, x, Head(sorted)) THEN <<x>> \o sorted
    ELSE <<Head(sorted)>> \o InsertAsc(metric, Tail(sorted), x)
RECURSIVE SortAscFrom(_, _, _)
SortAscFrom(metric, sorted, rest) ==
    IF rest = <<>> THEN sorted
    ELSE SortAscFrom(metric, InsertAsc(metric, sorted, Head(rest)), Tail(rest))
RECURSIVE ReverseSeq(_)
ReverseSeq(s) == IF s = <<>> THEN <<>> ELSE Append(ReverseSeq(Tail(s)), Head(s))
SortReversedAscending(metric, performers) == ReverseSeq(SortAscFrom(metric, <<>>, performers))
SortPerformers(metric, performers) == SortFrom(metric, <<>>, performers)

\* analyzed_count=len(performers)
AnalyzedCountFetched(quotes, performers) == Len(quotes)
AnalyzedCount(quotes, performers) == Len(performers)

\* server.py analyze_top_performers, from the fetched quotes on
Rank(quotes, metric, limit) ==
    LET parsed == SelectSeq(quotes, Parses)
        performers == [i \in DOMAIN parsed |-> PerformerMetrics(parsed[i])]
        ranked == SortPerformers(metric, performers)
        top_performers == SliceTo(ranked, limit)
    IN  IF Len(quotes) = 0
        THEN format_error(<<Lit("Unable to fetch data for any of the provided symbols")>>,
                          None, None)
        ELSE IF Len(performers) = 0
        THEN format_error(<<Lit("Unable to calculate metrics for any stocks")>>, None, None)
        ELSE [kind |-> "top_performers", period |-> "1day", metric |-> metric,
              performers |-> top_performers, count |-> Len(top_performers),
              analyzed_count |-> AnalyzedCount(quotes, performers)]
\* the warnings of the quotes that do not parse
RankLog(quotes) ==
    UNION { Record("WARNING", <<Lit("Failed to parse metrics for "), Text(quotes[i].symbol)>>) :
              i \in {j \in DOMAIN quotes : ~Parses(quotes[j])} }

\* server.py analyze_top_performers: the symbols argument parsed
\* [s.strip().upper() for s in symbols.split(',') if s.strip()]
ParseSymbols(symbols) ==
    LET parts == split(symbols)
        kept == SelectSeq(parts, LAMBDA x : strip(x) # <<>>)
    IN  [i \in DOMAIN kept |-> upper(strip(kept[i]))]

\* the checks with the cap applied to every comma-separated entry
ValidateBatchCountingBlanks(symbols, metric) ==
    IF Len(ParseSymbols(symbols)) = 0 THEN "No symbols provided"
    ELSE IF Len(split(symbols)) > MaxSymbols
    THEN "Maximum 50 symbols allowed to respect rate limits"
    ELSE IF metric \notin {"change_percent", "volume"}
    THEN "metric must be 'change_percent' or 'volume'"
    ELSE ""
\* server.py analyze_top_performers: the checks made before any fetch; the
\* message of the check that fails, "" when all pass
ValidateBatch(symbols, metric) ==
    LET symbol_list == ParseSymbols(symbols)
    IN  IF Len(symbol_list) = 0 THEN "No symbols provided"
        ELSE IF Len(symbol_list) > MaxSymbols
        THEN "Maximum 50 symbols allowed to respect rate limits"
        ELSE IF metric \notin {"change_percent", "volume"}
        THEN "metric must be 'change_percent' or 'volume'"
        ELSE ""

\* server.py get_daily_prices: if outputsize not in ["compact", "full"]
OutputsizeValid(outputsize) == outputsize \in {"compact", "full"}

\* ------------------------------------------------------------- the retries
\* urllib3 Retry(total=max_retries, status_forcelist=..., allowed_methods=["GET"]):
\* what an attempt can end in that the adapter may answer with another attempt
NetworkFailures == {"connect", "timeout"}
\* Retry.is_retry: respect_retry_after_header is left at its default, True, so
\* a status of Retry.RETRY_AFTER_STATUS_CODES = {413, 429, 503} that carries a
\* Retry-After header is retried too.  429 and 503 are in status_forcelist
\* already; outcome "413" is a 413 response with a Retry-After header.
RetryAfterStatuses == {"413"}
Retryable(outcome) ==
    /\ "GET" \in allowed_methods
    /\ outcome \in status_forcelist \cup RetryAfterStatuses \cup NetworkFailures

\* another attempt follows while fewer than total retries were made
ShouldRetryOnceMore(outcome, attempts_made, total) ==
    Retryable(outcome) /\ attempts_made - 1 <= total
ShouldRetry(outcome, attempts_made, total) ==
    Retryable(outcome) /\ attempts_made - 1 < total

\* what session.get() ends in when the retries are used up: is_retry is false
\* for a Retry-After status once total is 0, and the response is handed on
Exhausted(outcome) ==
    CASE outcome = "timeout" -> "timeout"
      [] outcome = "connect" -> "connect_error"
      [] outcome \in RetryAfterStatuses -> "http_error"
      [] OTHER -> "retry_error"

\* what the provider finally answers to one request
Reply(http, body) == [http |-> http, body |-> body]
Replies(bodies) ==
    { Reply("200", b) : b \in bodies } \cup { Reply("404", NoBody), Reply("badjson", NoBody) }
\* response.raise_for_status(), response.json()
NetOf(reply) ==
    CASE reply.http = "200" -> Net("ok", reply.body)
      [] reply.http = "badjson" -> Net("badjson", NoBody)
      [] OTHER -> Net("http_error", NoBody)

\* ------------------------------------------------- get_batch_quotes
\* client.get_batch_quotes(symbol_list) is called by server.py and defined
\* nowhere in the repository.  It is taken from the specification: one
\* get_quote per symbol, in list order; a symbol whose fetch fails is logged
\* and skipped; a RateLimitError is not absorbed.
\* PerformerMetrics and TopPerformersResult are imported from models.py, which
\* does not define them: their fields are those of the constructor calls in
\* analyze_top_performers.
BatchAbsorbs(exc) == IsInstance(exc, "AlphaVantageError") /\ exc # "RateLimitError"
NextIndexSkipping(i) == i + 2
NextIndex(i) == i + 1
BatchLog(symbol) == Record("WARNING", <<Lit("Failed to fetch quote for "), Text(symbol)>>)

\* ------------------------------------------------------------- arguments
SymbolArgs == { <<"a", "B">>, <<"A">> }
KeywordArgs == { <<"a", " ", "b">> }
OutputsizeArgs == { "compact", "full", "weekly" }
MetricArgs == { "change_percent", "volume", "price" }
LimitArgs == -1 .. MaxLimit
SymbolsArgs ==
    { <<"a", ",", "B">>,
      <<"B", ",", " ", "a", " ", ",", " ", ",", "B">>,
      <<"a">> \o Rep(<<",">>, MaxSymbols),
      Rep(<<"a", ",">>, MaxSymbols + 1),
      <<>>,
      <<" ", ",", " ">> }
BatchBodies ==
    { Body({"Global Quote"}, q) :
        q \in {QuoteHigh, QuoteTieP, QuoteLow, QuoteThin, QuoteNoBase} }
    \cup { Body({"Global Quote"}, EmptyObj), Body({"Error Message"}, EmptyObj),
           Body({"Note"}, EmptyObj) }
BatchReplies == { Reply("200", b) : b \in BatchBodies }

NoArgs ==
    [symbol |-> <<>>, outputsize |-> "", keywords |-> <<>>, symbols |-> <<>>,
     limit |-> 0, metric |-> ""]

\* ----------------------------------------------------------------- state
VARIABLES
    max_retries,   \* settings.max_retries
    pc,            \* "idle", "send" (about to GET), "wait" (GET in flight), "done"
    tool,          \* the tool invoked
    args,          \* its arguments
    provider,      \* what the provider finally answers, per symbol or query
    symbol_list,   \* analyze_top_performers: the parsed symbols
    idx,           \* get_batch_quotes: index of the symbol being fetched
    quotes,        \* get_batch_quotes: the quotes fetched so far
    attempts,      \* GET attempts of the current session.get()
    inflight,      \* GET attempts awaiting their response
    lastOutcome,   \* what the last attempt ended in
    faults,        \* transient failures so far
    issued,        \* GET attempts of this invocation
    fetched,       \* subjects of the client calls started, in order
    outcomes,      \* what each finished client call raised, "" for a return
    result,        \* the document the tool returned
    log,           \* the log records made
    escaped        \* class of the exception that left the tool, "" if none

vars == <<max_retries, pc, tool, args, provider, symbol_list, idx, quotes, attempts,
          inflight, lastOutcome, faults, issued, fetched, outcomes, result, log,
          escaped>>

\* max_retries above MaxFaults + 1 behaves as MaxFaults + 1: the retries beyond
\* the failures that occur are never used
Init ==
    /\ max_retries \in MaxRetriesGe .. Min(MaxRetriesLe, MaxFaults + 1)
    /\ pc = "idle"
    /\ tool = ""
    /\ args = NoArgs
    /\ provider = EmptyObj
    /\ symbol_list = <<>>
    /\ idx = 0
    /\ quotes = <<>>
    /\ attempts = 0
    /\ inflight = 0
    /\ lastOutcome = ""
    /\ faults = 0
    /\ issued = 0
    /\ fetched = <<>>
    /\ outcomes = <<>>
    /\ result = NoResult
    /\ log = {}
    /\ escaped = ""

\* the tool returns doc
Return(doc, records, exc) ==
    /\ pc' = "done"
    /\ result' = doc
    /\ log' = log \cup records
    /\ escaped' = exc

\* a client call starts: _make_request is entered for subject
StartCall(subject) ==
    /\ pc' = "send"
    /\ attempts' = 0
    /\ fetched' = Append(fetched, subject)

\* server.py get_stock_quote, up to the first GET
InvokeGetStockQuote ==
    \E symbol \in SymbolArgs, reply \in Replies(QuoteBodies) :
        /\ pc = "idle"
        /\ tool' = "get_stock_quote"
        /\ args' = [NoArgs EXCEPT !.symbol = symbol]
        /\ provider' = [k \in {upper(symbol)} |-> reply]
        /\ log' = log \cup Record("INFO", <<Lit("Fetching quote for "), Text(symbol)>>)
        /\ StartCall(upper(symbol))
        /\ UNCHANGED <<max_retries, symbol_list, idx, quotes, inflight, lastOutcome,
                       faults, issued, outcomes, result, escaped>>

\* server.py get_daily_prices, up to the first GET
InvokeGetDailyPrices ==
    \E symbol \in SymbolArgs, outputsize \in OutputsizeArgs :
        /\ pc = "idle"
        /\ tool' = "get_daily_prices"
        /\ args' = [NoArgs EXCEPT !.symbol = symbol, !.outputsize = outputsize]
        /\ LET info == Record("INFO", <<Lit("Fetching daily prices for "), Text(symbol),
                                        Lit(" (outputsize="), Lit(outputsize), Lit(")")>>)
           IN  IF OutputsizeValid(outputsize)
               THEN \E reply \in Replies(DailyBodies) :
                      /\ provider' = [k \in {upper(symbol)} |-> reply]
                      /\ log' = log \cup info
                      /\ StartCall(upper(symbol))
                      /\ UNCHANGED <<result, escaped>>
               ELSE /\ Return(format_error(<<Lit("outputsize must be 'compact' or 'full'")>>,
                                           Some(symbol), None), info, "")
                    /\ UNCHANGED <<provider, attempts, fetched>>
        /\ UNCHANGED <<max_retries, symbol_list, idx, quotes, inflight, lastOutcome,
                       faults, issued, outcomes>>

\* server.py search_symbol, up to the first GET
InvokeSearchSymbol ==
    \E keywords \in KeywordArgs, reply \in Replies(SearchBodies) :
        /\ pc = "idle"
        /\ tool' = "search_symbol"
        /\ args' = [NoArgs EXCEPT !.keywords = keywords]
        /\ provider' = [k \in {keywords} |-> reply]
        /\ log' = log \cup Record("INFO", <<Lit("Searching for symbols with keywords: "),
                                            Text(keywords)>>)
        /\ StartCall(keywords)
        /\ UNCHANGED <<max_retries, symbol_list, idx, quotes, inflight, lastOutcome,
                       faults, issued, outcomes, result, escaped>>

\* server.py analyze_top_performers, up to the first GET
InvokeAnalyzeTopPerformers ==
    \E symbols \in SymbolsArgs, limit \in LimitArgs, metric \in MetricArgs :
        /\ pc = "idle"
        /\ tool' = "analyze_top_performers"
        /\ args' = [NoArgs EXCEPT !.symbols = symbols, !.limit = limit, !.metric = metric]
        /\ LET parsed == ParseSymbols(symbols)
               invalid == ValidateBatch(symbols, metric)
           IN  IF invalid = ""
               THEN \E world \in [Range(parsed) -> BatchReplies] :
                      /\ provider' = world
                      /\ symbol_list' = parsed
                      /\ idx' = 1
                      /\ log' = log \cup Record("INFO",
                            <<Lit("Analyzing symbols for top performers by "), Lit(metric)>>)
                      /\ StartCall(parsed[1])
                      /\ UNCHANGED <<result, escaped>>
               ELSE /\ Return(format_error(<<Lit(invalid)>>, None, None), {}, "")
                    /\ symbol_list' = parsed
                    /\ UNCHANGED <<provider, idx, attempts, fetched>>
        /\ UNCHANGED <<max_retries, quotes, inflight, lastOutcome, faults, issued,
                       outcomes>>

\* the caller's text of the current client call, and the request made for it
Subject ==
    CASE tool = "search_symbol" -> args.keywords
      [] tool = "analyze_top_performers" -> symbol_list[idx]
      [] OTHER -> args.symbol
Params ==
    CASE tool = "search_symbol" -> SearchParams(args.keywords)
      [] tool = "get_daily_prices" -> DailyParams(args.symbol, args.outputsize)
      [] OTHER -> QuoteParams(Subject)
ProviderKey == IF tool = "search_symbol" THEN args.keywords ELSE upper(Subject)

\* the client method the tool calls, applied to what session.get() ended in
ClientResult(net, jsonIsRequestError) ==
    CASE tool = "get_daily_prices" ->
           get_daily_prices(args.symbol, args.outputsize, net, jsonIsRequestError)
      [] tool = "search_symbol" -> search_symbols(args.keywords, net, jsonIsRequestError)
      [] OTHER -> get_quote(Subject, net, jsonIsRequestError)

\* price.model_dump(by_alias=True), and DailyPrices validating it again
DumpByAlias(price) ==
    [k \in BarKeys |->
        CASE k = "1. open" -> price.open [] k = "2. high" -> price.high
          [] k = "3. low" -> price.low [] k = "4. close" -> price.close
          [] OTHER -> price.volume]

\* the document a tool returns when its client call succeeds
SuccessDoc(t, value) ==
    CASE t = "get_stock_quote" -> [kind |-> "quote", data |-> value]
      [] t = "get_daily_prices" ->
           [kind |-> "daily",
            data |-> [symbol |-> value.symbol,
                      recent_days |-> [i \in DOMAIN value.recent_days |->
                          [date |-> value.recent_days[i].date,
                           price |-> DailyPrice(DumpByAlias(value.recent_days[i].price))]],
                      total_days_available |-> value.total_days_available,
                      retrieved_at |-> "utc"]]
      [] OTHER ->
           [kind |-> "search",
            data |-> [query |-> args.keywords, matches |-> value, count |-> Len(value),
                      retrieved_at |-> "utc"]]

\* session.get() has ended in net: the rest of the tool, up to its return or
\* up to the next symbol's first GET
Complete(net, jsonIsRequestError) ==
    LET r == ClientResult(net, jsonIsRequestError)
        h == Handle(tool, r, Subject)
        got == IF r.exc = "" THEN Append(quotes, r.value) ELSE quotes
        skipped == IF r.exc = "" THEN {} ELSE BatchLog(Subject)
    IN  /\ outcomes' = Append(outcomes, r.exc)
        /\ IF tool # "analyze_top_performers"
           THEN /\ IF r.exc = ""
                   THEN Return(SuccessDoc(tool, r.value), {}, "")
                   ELSE Return(h.doc, h.log, h.escaped)
                /\ UNCHANGED <<idx, quotes, attempts, fetched>>
           ELSE IF r.exc # "" /\ ~BatchAbsorbs(r.exc)
           THEN /\ Return(h.doc, h.log, h.escaped)
                /\ UNCHANGED <<idx, quotes, attempts, fetched>>
           ELSE /\ quotes' = got
                /\ IF NextIndex(idx) <= Len(symbol_list)
                   THEN /\ idx' = NextIndex(idx)
                        /\ StartCall(symbol_list[NextIndex(idx)])
                        /\ log' = log \cup skipped
                        /\ UNCHANGED <<result, escaped>>
                   ELSE /\ Return(Rank(got, args.metric, args.limit),
                                  skipped \cup RankLog(got), "")
                        /\ UNCHANGED <<idx, attempts, fetched>>

\* the session sends one GET
SendRequest ==
    /\ pc = "send"
    /\ pc' = "wait"
    /\ attempts' = attempts + 1
    /\ issued' = issued + 1
    /\ inflight' = inflight + 1
    /\ log' = log \cup (IF attempts = 0 THEN RequestLog(Params) ELSE {})
    /\ UNCHANGED <<max_retries, tool, args, provider, symbol_list, idx, quotes,
                   lastOutcome, faults, fetched, outcomes, result, escaped>>

\* the attempt ends in a retryable status or a network failure
ReceiveFault ==
    \E outcome \in status_forcelist \cup RetryAfterStatuses \cup NetworkFailures :
        /\ pc = "wait"
        /\ faults < MaxFaults
        /\ faults' = faults + 1
        /\ inflight' = inflight - 1
        /\ lastOutcome' = outcome
        /\ IF ShouldRetry(outcome, attempts, max_retries)
           THEN /\ pc' = "send"
                /\ UNCHANGED <<idx, quotes, attempts, fetched, outcomes, result, log,
                               escaped>>
           ELSE Complete(Net(Exhausted(outcome), NoBody), TRUE)
        /\ UNCHANGED <<max_retries, tool, args, provider, symbol_list, issued>>

\* the attempt ends in the provider's answer
ReceiveReply ==
    \E jsonIsRequestError \in BOOLEAN :
        /\ pc = "wait"
        /\ provider[ProviderKey].http = "badjson" \/ jsonIsRequestError
        /\ inflight' = inflight - 1
        /\ lastOutcome' = provider[ProviderKey].http
        /\ Complete(NetOf(provider[ProviderKey]), jsonIsRequestError)
        /\ UNCHANGED <<max_retries, tool, args, provider, symbol_list, faults, issued>>

Next ==
    \/ InvokeGetStockQuote
    \/ InvokeGetDailyPrices
    \/ InvokeSearchSymbol
    \/ InvokeAnalyzeTopPerformers
    \/ SendRequest
    \/ ReceiveFault
    \/ ReceiveReply

Spec == Init /\ [][Next]_vars

\* =================================================================== claims
Done == pc = "done"
SingleTools == {"get_stock_quote", "get_daily_prices", "search_symbol"}
Batch == tool = "analyze_top_performers"

\* the body of the HTTP 200 that ended a single tool's client call
Answered == Done /\ tool \in SingleTools /\ lastOutcome = "200"
AnsweredKeys == provider[ProviderKey].body.keys
AnsweredValue == provider[ProviderKey].body.value

\* the ErrorRecords of the except clauses, by what str(e) starts with
RateLimitRecord(d) ==
    /\ d.kind = "error"
    /\ d.error = <<Lit("Rate limit reached: "), Lit("Rate limit reached: "), Payload("Note")>>
PermanentRecord(d) ==
    /\ d.kind = "error"
    /\ Len(d.error) = 3
    /\ d.error[1] = Lit(ErrorPrefix(tool))
    /\ d.error[2] = Lit("API Error: ")
TransportRecord(d) ==
    /\ d.kind = "error"
    /\ Len(d.error) >= 2
    /\ d.error[1] = Lit(ErrorPrefix(tool))
    /\ d.error[2] \in {Lit("Request failed: "), Lit("Request timed out")}

\* C1 as claimed: a 200 whose body has the key "Note" ends get_quote,
\* get_daily_prices and search_symbols in a RateLimitError, whatever else the
\* body holds.
C1_NoteAlwaysRateLimit == Answered /\ "Note" \in AnsweredKeys => RateLimitRecord(result)

\* C1: a 200 whose body has the key "Note" and not the key "Error Message"
\* ends each of the three operations in a RateLimitError, with or without the
\* data key; with both keys it ends in the permanent error.  It never ends in
\* a not-found error or a success.
C1_NoteIsRateLimit ==
    Answered /\ "Note" \in AnsweredKeys =>
        IF "Error Message" \in AnsweredKeys THEN PermanentRecord(result)
        ELSE RateLimitRecord(result)
C1_Witness ==
    /\ Answered
    /\ \E k \in {"Global Quote", "Time Series (Daily)", "bestMatches"} :
           AnsweredKeys = {"Note", k}
    /\ RateLimitRecord(result)

\* a tool that has not returned has a step to take: a GET to send, or an
\* attempt in flight whose answer or failure is the next step
NotStuck ==
    /\ pc \in {"idle", "send", "wait", "done"}
    /\ pc = "send" => inflight = 0
    /\ pc = "wait" => inflight = 1 /\ ProviderKey \in DOMAIN provider

\* C2: a tool that has returned has returned one document, a success document
\* or an ErrorRecord with a message and a timestamp; before it returns there
\* is none; no exception leaves a tool; a tool that has not returned can
\* always take its next step.
C2_OneDocumentNoEscape ==
    /\ escaped = ""
    /\ Done => result.kind \in {"quote", "daily", "search", "top_performers", "error"}
    /\ Done /\ result.kind = "error" => result.error # <<>> /\ result.timestamp = "utc"
    /\ ~Done => result = NoResult
    /\ NotStuck
C2_Witness ==
    /\ Done
    /\ tool = "get_daily_prices"
    /\ outcomes = <<"ValidationError">>
    /\ result.kind = "error"
    /\ result.error[1] = Lit("Unexpected error: ")

\* the comma-separated entries that hold something other than spaces
NonBlankEntries(symbols) ==
    LET parts == split(symbols)
    IN  {i \in DOMAIN parts : \E j \in DOMAIN parts[i] : parts[i][j] # " "}
BatchInvalid ==
    \/ Cardinality(NonBlankEntries(args.symbols)) = 0
    \/ Cardinality(NonBlankEntries(args.symbols)) > 50
    \/ args.metric \notin {"change_percent", "volume"}
Rejected == Done /\ result.kind = "error" /\ issued = 0 /\ fetched = <<>>

\* C3: analyze_top_performers with no non-blank symbol, more than 50 non-blank
\* symbols or an unknown metric, and get_daily_prices with an outputsize other
\* than compact and full, return an ErrorRecord and send nothing; blank
\* entries do not count: every other analyze_top_performers call starts its
\* first fetch.
C3_ValidationBeforeNetwork ==
    /\ Batch /\ BatchInvalid => Rejected
    /\ tool = "get_daily_prices" /\ args.outputsize \notin {"compact", "full"} => Rejected
    /\ Batch /\ ~BatchInvalid => Len(fetched) >= 1
C3_Witness ==
    /\ Batch
    /\ Cardinality(NonBlankEntries(args.symbols)) = 51
    /\ args.metric = "volume"
    /\ Rejected

RetryOnlyAfter(S) ==
    (pc = "send" /\ attempts >= 1) \/ (pc = "wait" /\ attempts >= 2) => lastOutcome \in S
TransportEnds ==
    /\ attempts <= max_retries + 1
    /\ issued <= Max(1, Len(symbol_list)) * (max_retries + 1)
    /\ NotStuck
    /\ Done /\ tool \in SingleTools /\ lastOutcome \notin {"", "200", "badjson"}
         => TransportRecord(result)
    /\ Answered /\ "Error Message" \in AnsweredKeys
         => PermanentRecord(result) /\ issued = faults + 1

BatchRanToEnd ==
    /\ Done
    /\ Batch
    /\ symbol_list # <<>>
    /\ Len(outcomes) = Len(symbol_list)
    /\ \A i \in DOMAIN outcomes : outcomes[i] \in {"", "AlphaVantageError"}
FetchedOk(i) == outcomes[i] = ""
\* the quote the provider holds for entry i, as get_quote maps it
QuoteAt(i) == StockQuote(symbol_list[i], provider[symbol_list[i]].body.value)
Survives(i) == FetchedOk(i) /\ Parses(QuoteAt(i))
Survivors == SelectSeq([i \in DOMAIN symbol_list |-> i], Survives)
SurvivorSymbols == [k \in DOMAIN Survivors |-> symbol_list[Survivors[k]]]
PerformerSymbols == [k \in DOMAIN result.performers |-> result.performers[k].symbol]
Count(x, seq) == Cardinality({i \in DOMAIN seq : seq[i] = x})
IsPermutation(a, b) ==
    Len(a) = Len(b) /\ \A x \in Range(a) \cup Range(b) : Count(x, a) = Count(x, b)
IsSubBag(a, b) == \A x \in Range(a) : Count(x, a) <= Count(x, b)
SomeFail == \E i \in DOMAIN outcomes : ~FetchedOk(i)
SomeOk == \E i \in DOMAIN outcomes : FetchedOk(i)

\* C5 as claimed: when some but not all fetches of a valid list fail, the tool
\* returns a RankedResult with metrics for exactly the symbols that were
\* fetched and parsed, analyzed_count being their number; the batch ends in
\* an ErrorRecord if and only if every fetch fails.
C5_ExactlyTheSurvivors ==
    BatchRanToEnd =>
        /\ SomeFail /\ SomeOk =>
             /\ result.kind = "top_performers"
             /\ IsPermutation(PerformerSymbols, SurvivorSymbols)
             /\ result.analyzed_count = Len(SurvivorSymbols)
        /\ result.kind = "error" <=> ~SomeOk

\* C5: when at least one fetched quote parses, whatever fetches fail, the tool
\* returns a RankedResult whose analyzed_count is the number of symbols fetched
\* and parsed and whose performers are `count` of those symbols, all of them
\* when limit is at least their number; it returns the "Unable to fetch"
\* ErrorRecord if and only if every fetch fails, and the "Unable to calculate"
\* ErrorRecord when quotes were fetched and none parses.
C5_FailureIsolation ==
    BatchRanToEnd =>
        /\ SurvivorSymbols # <<>> =>
             /\ result.kind = "top_performers"
             /\ result.analyzed_count = Len(SurvivorSymbols)
             /\ result.count = Len(result.performers)
             /\ IsSubBag(PerformerSymbols, SurvivorSymbols)
             /\ args.limit >= Len(SurvivorSymbols) =>
                  IsPermutation(PerformerSymbols, SurvivorSymbols)
        /\ ~SomeOk <=>
             result = format_error(
                 <<Lit("Unable to fetch data for any of the provided symbols")>>, None, None)
        /\ SomeOk /\ SurvivorSymbols = <<>> =>
             result = format_error(
                 <<Lit("Unable to calculate metrics for any stocks")>>, None, None)
C5_Witness ==
    /\ BatchRanToEnd
    /\ outcomes = <<"", "AlphaVantageError", "">>
    /\ args.limit = 2
    /\ result.kind = "top_performers"
    /\ result.analyzed_count = 2
    /\ PerformerSymbols = <<<<"B">>, <<"B">>>>

IsPrefix(a, b) == Len(a) <= Len(b) /\ SubSeq(b, 1, Len(a)) = a
Sequential ==
    /\ inflight <= 1
    /\ IsPrefix(fetched, symbol_list)
    /\ Len(outcomes) <= Len(fetched)
    /\ Len(fetched) <= Len(outcomes) + 1
    /\ inflight = 1 \/ pc = "send" => Len(fetched) = Len(outcomes) + 1

\* C6 as claimed: at most one quote request is in flight, the fetches start in
\* list order, each after the one before it has ended, and one fetch is
\* started for every entry of the list.
C6_OneFetchPerEntry ==
    Batch =>
        /\ Sequential
        /\ Done /\ ~BatchInvalid => fetched = symbol_list

\* C6: at most one quote request is in flight, the fetches start in list
\* order, each after the one before it has ended, and at most one fetch is
\* started per entry: one for every entry when no fetch ends in a
\* RateLimitError, and none after the first fetch that does.
C6_SequentialFetches ==
    Batch =>
        /\ Sequential
        /\ Done /\ ~BatchInvalid =>
             IF "RateLimitError" \in Range(outcomes)
             THEN outcomes[Len(fetched)] = "RateLimitError"
             ELSE fetched = symbol_list
C6_Witness ==
    /\ Batch
    /\ Done
    /\ Len(symbol_list) = 3
    /\ fetched = symbol_list
    /\ faults >= 1
    /\ issued = 4

\* C7: when a quote fetch of analyze_top_performers ends in RateLimitError the
\* tool has returned the rate-limit ErrorRecord, not a RankedResult; that
\* fetch is the last one started and no GET follows it.
C7_RateLimitSurfaces ==
    Batch /\ "RateLimitError" \in Range(outcomes) =>
        /\ Done
        /\ result = format_error(
               <<Lit("Rate limit reached: "), Lit("Rate limit reached: "), Payload("Note")>>,
               None, None)
        /\ Count("RateLimitError", outcomes) = 1
        /\ outcomes[Len(outcomes)] = "RateLimitError"
        /\ Len(fetched) = Len(outcomes)
        /\ inflight = 0
        /\ lastOutcome = "200"
        /\ issued <= Len(fetched) + faults
C7_Witness ==
    /\ Batch
    /\ Done
    /\ Len(symbol_list) = 3
    /\ outcomes = <<"", "RateLimitError">>
    /\ result.kind = "error"

\* ------------------------------------------------------------ what is said
Messages ==
    {r.msg : r \in log} \cup (IF Done /\ result.kind = "error" THEN {result.error} ELSE {})
Carries(msg, t) == \E i \in DOMAIN msg : msg[i].t = t

\* C8 as claimed: no log record and no error message holds the API key, and
\* no error message holds text of the provider's payload.
C8_NoKeyNoPayload ==
    \A msg \in Messages : ~Carries(msg, "$apikey") /\ ~Carries(msg, "$payload")

\* C9 as claimed: for every non-empty series the provider returns,
\* get_daily_prices reports as recent_days the min(5, n) greatest dates in
\* descending order, each with its own bar, and total_days_available = n.
DailyAnswered ==
    /\ Answered
    /\ tool = "get_daily_prices"
    /\ "Time Series (Daily)" \in AnsweredKeys
    /\ AnsweredKeys \cap {"Error Message", "Note"} = {}
    /\ DOMAIN AnsweredValue # {}
WindowOf(series) ==
    LET n == Cardinality(DOMAIN series)
        days == result.data.recent_days
        shown == {days[i].date : i \in DOMAIN days}
    IN  /\ result.kind = "daily"
        /\ Len(days) = Min(5, n)
        /\ Len(days) <= result.data.total_days_available
        /\ result.data.total_days_available = n
        /\ shown \subseteq DOMAIN series
        /\ \A i, j \in DOMAIN days : i < j => StrLess(days[j].date, days[i].date)
        /\ \A d \in DOMAIN series \ shown : \A e \in shown : StrLess(d, e)
        /\ \A i \in DOMAIN days : \A k \in BarKeys :
               k \in DOMAIN series[days[i].date]
               /\ DumpByAlias(days[i].price)[k] = series[days[i].date][k]
C9_RecentWindow == DailyAnswered => WindowOf(AnsweredValue)
\* the same of the series whose bars all have their five fields
RecentWindowOfCompleteSeries ==
    DailyAnswered /\ (\A d \in DOMAIN AnsweredValue : BarKeys \subseteq DOMAIN AnsweredValue[d])
        => WindowOf(AnsweredValue)
WindowReached == DailyAnswered /\ result.kind = "daily" /\ Len(result.data.recent_days) = 5
                 /\ result.data.total_days_available = 6

\* the order of the selected metric
MetricGe(x, y) ==
    IF args.metric = "volume" THEN x.volume >= y.volume
    ELSE x.change_percent.n * y.change_percent.d >= y.change_percent.n * x.change_percent.d
MetricSame(x, y) == MetricGe(x, y) /\ MetricGe(y, x)
Arrangements(n) == {f \in [1..n -> 1..n] : \A i, j \in 1..n : f[i] = f[j] => i = j}
\* the quotes get_batch_quotes returned that parse, as performers, in fetch order
Surviving ==
    LET parsed == SelectSeq(quotes, Parses)
    IN  [i \in DOMAIN parsed |-> PerformerMetrics(parsed[i])]

\* C10: the performers returned are in non-increasing order of the selected
\* metric, and they are the first entries of an arrangement of the surviving
\* quotes in which every quote occurs once, the metric never increases and
\* quotes of equal metric keep their input order.
C10_StableDescending ==
    Done /\ Batch /\ result.kind = "top_performers" =>
        LET S == Surviving
            P == result.performers
        IN  /\ \A i, j \in DOMAIN P : i < j => MetricGe(P[i], P[j])
            /\ \E f \in Arrangements(Len(S)) :
                 /\ Len(P) <= Len(S)
                 /\ \A i \in DOMAIN P : P[i] = S[f[i]]
                 /\ \A i, j \in 1..Len(S) :
                      i < j => /\ MetricGe(S[f[i]], S[f[j]])
                               /\ MetricSame(S[f[i]], S[f[j]]) => f[i] < f[j]
C10_Witness ==
    /\ Done
    /\ Batch
    /\ result.kind = "top_performers"
    /\ Len(result.performers) = 2
    /\ PerformerSymbols = <<<<"A">>, <<"B">>>>
    /\ MetricSame(result.performers[1], result.performers[2])
    /\ result.performers[1] # result.performers[2]

\* ------------------------------------------------------------ the limit
Ranked == SortPerformers(args.metric, Surviving)
RankedResult == Done /\ Batch /\ result.kind = "top_performers"
Counters ==
    /\ result.count = Len(result.performers)
    /\ result.analyzed_count = Len(Surviving)
    /\ result.analyzed_count <= Cardinality(NonBlankEntries(args.symbols))

\* C11 as claimed: for every integer limit a RankedResult holds at most limit
\* performers, the first limit entries of the ranked order, with
\* count = number of performers = min(limit, analyzed_count) and
\* analyzed_count <= number of requested symbols.
C11_AtMostLimit ==
    RankedResult =>
        /\ Len(result.performers) <= args.limit
        /\ result.performers = SubSeq(Ranked, 1, Min(args.limit, Len(Ranked)))
        /\ result.count = Min(args.limit, result.analyzed_count)
        /\ Counters

\* C11: for a limit >= 0 a RankedResult holds the first min(limit,
\* analyzed_count) entries of the ranked order; for a limit < 0 it holds the
\* first max(0, analyzed_count + limit) entries; count is the number of
\* performers returned and analyzed_count <= number of requested symbols.
C11_LimitIsASlice ==
    RankedResult =>
        LET n == result.analyzed_count
            kept == IF args.limit >= 0 THEN Min(args.limit, n) ELSE Max(0, n + args.limit)
        IN  /\ Counters
            /\ result.count = kept
            /\ \A i \in 1..kept : result.performers[i] = Ranked[i]
C11_Witness ==
    /\ RankedResult
    /\ args.limit = 2
    /\ result.analyzed_count = 3
    /\ result.count = 2

\* ----------------------------------------------------- change percent
\* C12: the change_percent of every performer is change / previous_close * 100
\* of the numbers the provider's "09. change" and "08. previous close" parse
\* to when previous_close > 0, and 0 otherwise, whatever the provider's
\* "10. change percent" says; get_stock_quote returns that string as it is.
C12_ChangePercentRecomputed ==
    /\ RankedResult =>
         \A i \in DOMAIN result.performers :
             LET p == result.performers[i]
                 q == provider[p.symbol].body.value
                 change == ParseFloat(q["09. change"]).v
                 previous_close == ParseFloat(q["08. previous close"]).v
             IN  /\ p.change = change
                 /\ p.previous_close = previous_close
                 /\ p.change_percent.d > 0
                 /\ IF previous_close > 0
                    THEN p.change_percent.n * previous_close
                           = change * 100 * p.change_percent.d
                    ELSE p.change_percent.n = 0
    /\ Answered /\ tool = "get_stock_quote" /\ result.kind = "quote"
         /\ "10. change percent" \in DOMAIN AnsweredValue
         => result.data.change_percent = AnsweredValue["10. change percent"]
C12_Witness ==
    /\ RankedResult
    /\ \E i \in DOMAIN result.performers :
           /\ result.performers[i].previous_close < 0
           /\ result.performers[i].change > 0
           /\ result.performers[i].change_percent.n = 0
           /\ provider[result.performers[i].symbol].body.value["10. change percent"] = "9.99%"

\* ------------------------------------------------- quotes that do not parse
\* the strings of the payloads that are decimal numbers, and those that are
\* integers
DecimalStrings == {"10.5", "10.0", "100", "50", "4", "2", "1", "0", "-1"}
IntegerStrings == {"100", "50", "4", "2", "1", "0", "-1"}
Numeric(i) ==
    /\ QuoteAt(i).price \in DecimalStrings
    /\ QuoteAt(i).previous_close \in DecimalStrings
    /\ QuoteAt(i).change \in DecimalStrings
    /\ QuoteAt(i).volume \in IntegerStrings
NumericFetched == {i \in DOMAIN outcomes : FetchedOk(i) /\ Numeric(i)}
NonNumericFetched == {i \in DOMAIN outcomes : FetchedOk(i) /\ ~Numeric(i)}
CannotCalculate ==
    format_error(<<Lit("Unable to calculate metrics for any stocks")>>, None, None)

DataKey ==
    CASE tool = "get_stock_quote" -> "Global Quote"
      [] tool = "get_daily_prices" -> "Time Series (Daily)"
      [] OTHER -> "bestMatches"
\* a 200 with neither error key whose data key is absent or holds nothing
NotFoundCase ==
    /\ Answered
    /\ AnsweredKeys \cap {"Error Message", "Note"} = {}
    /\ DataKey \notin AnsweredKeys \/ DOMAIN AnsweredValue = {}
NotFoundMessage ==
    CASE tool = "get_stock_quote" -> <<Lit("No data found for symbol "), Text(args.symbol)>>
      [] tool = "get_daily_prices" -> <<Lit("No daily data found for "), Text(args.symbol)>>
      [] OTHER -> <<Lit("No symbols found for '"), Text(args.keywords), Lit("'")>>
NotFoundRecord ==
    format_error(<<Lit(ErrorPrefix(tool))>> \o NotFoundMessage,
                 IF tool = "search_symbol" THEN None ELSE Some(args.symbol),
                 IF tool = "search_symbol" THEN Some(args.keywords) ELSE None)
\* the exception classes _make_request raises for a transport failure and
\* for a payload that signals an error
TransportKinds ==
    {make_request(Params, Net(k, NoBody), TRUE).exc :
        k \in {"timeout", "http_error", "retry_error", "connect_error"}}
ClassificationKinds ==
    {Classify(Body(ks, EmptyObj)).exc : ks \in {{"Error Message"}, {"Note"}}}

DocumentSymbol == IF result.kind = "error" THEN result.symbol ELSE Some(result.data.symbol)

\* C15: the symbol parameter of the request is the upper-cased input, and
\* the symbol field of every document get_stock_quote and get_daily_prices
\* return, success document and ErrorRecord alike, is the upper-cased input.
C15_SymbolUpperCased ==
    Done /\ tool \in {"get_stock_quote", "get_daily_prices"} /\ escaped = "" =>
        /\ Params.symbol = upper(args.symbol)
        /\ DocumentSymbol = Some(upper(args.symbol))

\* ------------------------------------------------------ absent sub-fields
\* the output field filled from each numbered-prefix key
QuoteFields ==
    {<<"price", "05. price">>, <<"change", "09. change">>,
     <<"change_percent", "10. change percent">>, <<"volume", "06. volume">>,
     <<"latest_trading_day", "07. latest trading day">>,
     <<"previous_close", "08. previous close">>, <<"open", "02. open">>,
     <<"high", "03. high">>, <<"low", "04. low">>}
BarFields ==
    {<<"open", "1. open">>, <<"high", "2. high">>, <<"low", "3. low">>,
     <<"close", "4. close">>, <<"volume", "5. volume">>}
MatchFields ==
    {<<"symbol", "1. symbol">>, <<"name", "2. name">>, <<"type", "3. type">>,
     <<"region", "4. region">>, <<"currency", "8. currency">>}
\* the sentinel, as a Python string and as text
Sentinel == "N/A"
SentinelText == <<"N", "/", "A">>
\* a 200 with neither error key whose expected object is present and holds
\* something
DataPresent ==
    /\ Answered
    /\ AnsweredKeys \cap {"Error Message", "Note"} = {}
    /\ DataKey \in AnsweredKeys
    /\ DOMAIN AnsweredValue # {}

\* C16: for Quote, DailyPriceBar and SymbolMatch alike, when the expected
\* object is present the operation succeeds, every present sub-field is
\* passed through unchanged and every absent one reads "N/A".
C16_SentinelForAbsentFields ==
    DataPresent =>
        CASE tool = "get_stock_quote" ->
               /\ result.kind = "quote"
               /\ \A f \in QuoteFields :
                     result.data[f[1]] = Get(AnsweredValue, f[2], Sentinel)
          [] tool = "get_daily_prices" ->
               /\ result.kind = "daily"
               /\ \A i \in DOMAIN result.data.recent_days :
                     LET day == result.data.recent_days[i]
                     IN  \A f \in BarFields :
                            day.price[f[1]] = Get(AnsweredValue[day.date], f[2], SentinelText)
          [] OTHER ->
               /\ result.kind = "search"
               /\ \A i \in DOMAIN result.data.matches :
                     \A f \in MatchFields :
                        result.data.matches[i][f[1]] = Get(AnsweredValue[i], f[2], SentinelText)
\* the part of C16 that get_quote meets: a quote lacking a sub-field is
\* returned with "N/A" in its place
QuoteSentinel ==
    DataPresent /\ tool = "get_stock_quote" =>
        /\ result.kind = "quote"
        /\ \A f \in QuoteFields : result.data[f[1]] = Get(AnsweredValue, f[2], Sentinel)

\* ------------------------------------------------------------- the search
\* search_symbol was answered with a non-empty match list
MatchesAnswered == DataPresent /\ tool = "search_symbol"

\* C17: for a provider match list of length n > 0, search_symbol returns
\* the first min(10, n) matches, the i-th returned being the provider's
\* i-th, and count = min(10, n); the matches are a function of the
\* provider's response, so an identical response yields identical matches.
C17_FirstTenInOrder ==
    MatchesAnswered =>
        LET n == Len(AnsweredValue)
            kept == Min(MaxMatches, n)
        IN  /\ result.kind = "search"
            /\ result.data.query = args.keywords
            /\ result.data.count = kept
            /\ Len(result.data.matches) = kept
            /\ \A i \in 1..kept :
                  \A f \in MatchFields :
                     result.data.matches[i][f[1]] = Get(AnsweredValue[i], f[2], <<>>)
C17_Witness ==
    /\ MatchesAnswered
    /\ Len(AnsweredValue) = MaxMatches + 1
    /\ result.data.count = MaxMatches
    /\ result.data.matches[MaxMatches].symbol = AnsweredValue[MaxMatches]["1. symbol"]
    /\ result.data.matches[1].symbol # result.data.matches[2].symbol
====
